---- MODULE Spec2Model ----
(***************************************************************************)
(* Model of calculate_equity and its helpers in src/poker_app.py: card     *)
(* token cleaning, the treys card/evaluator/deck calls it makes, the hand  *)
(* label, and the Monte-Carlo trial loop.                                  *)
(*                                                                         *)
(* A card token is a sequence of one-character strings.  A parsed card is  *)
(* the pair <<rank, suit>> that treys packs into its card integer: rank is *)
(* the index 0..12 in "23456789TJQKA", suit is the treys suit bit          *)
(* (s = 1, h = 2, d = 4, c = 8).                                           *)
(***************************************************************************)
EXTENDS Integers, Sequences, FiniteSets

(***************************************************************************)
(* Bounds of the exploration.                                              *)
(***************************************************************************)
\* sims ranges over 0..MaxSims (the UI passes the default 2500)
MaxSims == 2
\* a trial's draws come from the first (cards needed + ShuffleSlack) cards of
\* DeckOrder still in the deck
ShuffleSlack == 1

(***************************************************************************)
(* Exceptions.  An exception raised by the evaluator is the value Raise    *)
(* where a score is expected, one raised by Card.new is the value NoCard   *)
(* where a card is expected.                                               *)
(***************************************************************************)
Raise == -1
NoCard == <<>>

(***************************************************************************)
(* clean_card_input                                                        *)
(***************************************************************************)
LowerChars == <<"a", "c", "d", "h", "j", "k", "q", "s", "t", "x">>
UpperChars == <<"A", "C", "D", "H", "J", "K", "Q", "S", "T", "X">>

\* str.upper() on one character
Upper(ch) ==
    IF \E i \in 1..Len(LowerChars) : LowerChars[i] = ch
    THEN UpperChars[CHOOSE i \in 1..Len(LowerChars) : LowerChars[i] = ch]
    ELSE ch

\* str.lower() on one character
Lower(ch) ==
    IF \E i \in 1..Len(UpperChars) : UpperChars[i] = ch
    THEN LowerChars[CHOOSE i \in 1..Len(UpperChars) : UpperChars[i] = ch]
    ELSE ch

RECURSIVE LStrip(_)
LStrip(s) == IF s # <<>> /\ Head(s) = " " THEN LStrip(Tail(s)) ELSE s

RECURSIVE RStrip(_)
RStrip(s) ==
    IF s # <<>> /\ s[Len(s)] = " " THEN RStrip(SubSeq(s, 1, Len(s) - 1)) ELSE s

\* str.strip()
Strip(s) == RStrip(LStrip(s))

\* str.replace(" ", "")
RemoveSpaces(s) == SelectSeq(s, LAMBDA ch : ch # " ")

\* str.replace("10", "T"): leftmost non-overlapping occurrences
RECURSIVE ReplaceTen(_)
ReplaceTen(s) ==
    IF Len(s) = 0 THEN <<>>
    ELSE IF Len(s) >= 2 /\ s[1] = "1" /\ s[2] = "0"
         THEN <<"T">> \o ReplaceTen(SubSeq(s, 3, Len(s)))
         ELSE <<s[1]>> \o ReplaceTen(Tail(s))

clean_card_input(card_str) ==
    IF card_str = <<>> THEN <<>>
    ELSE LET clean == ReplaceTen(RemoveSpaces(Strip(card_str)))
         IN  IF Len(clean) >= 2
             THEN <<Upper(clean[1]), Lower(clean[2])>>
             ELSE clean

(***************************************************************************)
(* treys.Card                                                              *)
(***************************************************************************)
STR_RANKS == <<"2", "3", "4", "5", "6", "7", "8", "9", "T", "J", "Q", "K", "A">>
SuitChars == <<"s", "h", "d", "c">>
SuitInts  == <<1, 2, 4, 8>>

Ranks == 0..12
Suits == {1, 2, 4, 8}

\* Card.new(string): string[0] and string[1] looked up in the rank and suit
\* tables; IndexError on a short string, KeyError on an unknown character
CardNew(string) ==
    IF Len(string) < 2 THEN NoCard
    ELSE IF ~ \E r \in 1..13 : STR_RANKS[r] = string[1] THEN NoCard
    ELSE IF ~ \E k \in 1..4 : SuitChars[k] = string[2] THEN NoCard
    ELSE << (CHOOSE r \in 1..13 : STR_RANKS[r] = string[1]) - 1,
            SuitInts[CHOOSE k \in 1..4 : SuitChars[k] = string[2]] >>

(***************************************************************************)
(* treys.LookupTable and treys.Evaluator                                   *)
(***************************************************************************)
\* binomial coefficient, n <= 13 and k <= 5
Binom(n, k) ==
    IF k = 0 THEN 1
    ELSE IF n < k THEN 0
    ELSE IF k = 1 THEN n
    ELSE IF k = 2 THEN (n * (n - 1)) \div 2
    ELSE IF k = 3 THEN (n * (n - 1) * (n - 2)) \div 6
    ELSE IF k = 4 THEN (n * (n - 1) * (n - 2) * (n - 3)) \div 24
    ELSE (n * (n - 1) * (n - 2) * (n - 3) * (n - 4)) \div 120

\* number of elements of the rank set R below r
Below(R, r) == Cardinality({x \in R : x < r})

RECURSIVE SumOver(_, _)
SumOver(S, R) ==
    IF S = {} THEN 0
    ELSE LET r == CHOOSE x \in S : TRUE
         IN  Binom(r, Below(R, r) + 1) + SumOver(S \ {r}, R)

\* the number of 5-rank bit patterns whose integer value is below that of R
BitOrder(R) == SumOver(R, R)

\* the ten straights, strongest first (the table's straight_flushes list)
Straights ==
    << {8, 9, 10, 11, 12}, {7, 8, 9, 10, 11}, {6, 7, 8, 9, 10}, {5, 6, 7, 8, 9},
       {4, 5, 6, 7, 8}, {3, 4, 5, 6, 7}, {2, 3, 4, 5, 6}, {1, 2, 3, 4, 5},
       {0, 1, 2, 3, 4}, {0, 1, 2, 3, 12} >>

StraightOrders == [i \in 1..10 |-> BitOrder(Straights[i])]

IsStraight(R) == \E i \in 1..10 : Straights[i] = R

StraightIndex(R) == CHOOSE i \in 1..10 : Straights[i] = R

\* position (from 0) of the non-straight pattern R in the table's list of
\* flushes / high cards, which runs from the highest bit pattern down
PatternIndex(R) ==
    LET o == BitOrder(R)
    IN  (1286 - o) - Cardinality({i \in 1..10 : StraightOrders[i] > o})

\* position (from 0) of rank k in the ranks listed from ace down with the
\* ranks of Out removed
KickerPos(k, Out) == (12 - k) - Cardinality({x \in Out : x > k})

\* LookupTable.flush_lookup, keyed by the set of ranks present
FlushLookup(R) ==
    IF Cardinality(R) # 5 THEN Raise
    ELSE IF IsStraight(R) THEN StraightIndex(R)
    ELSE 323 + PatternIndex(R)

\* LookupTable.unsuited_lookup, keyed by the multiset of the five ranks
UnsuitedLookup(rs) ==
    LET cnt == [r \in Ranks |-> Cardinality({i \in 1..5 : rs[i] = r})]
        R4 == {r \in Ranks : cnt[r] = 4}
        R3 == {r \in Ranks : cnt[r] = 3}
        R2 == {r \in Ranks : cnt[r] = 2}
        R1 == {r \in Ranks : cnt[r] = 1}
        One(S) == CHOOSE x \in S : TRUE
        Max(S) == CHOOSE x \in S : \A y \in S : y <= x
        Min(S) == CHOOSE x \in S : \A y \in S : x <= y
    IN  IF R4 # {} /\ R1 # {}
        THEN 11 + (12 - One(R4)) * 12 + KickerPos(One(R1), R4)
        ELSE IF R3 # {} /\ R2 # {}
        THEN 167 + (12 - One(R3)) * 12 + KickerPos(One(R2), R3)
        ELSE IF R3 # {} /\ Cardinality(R1) = 2
        THEN LET a == KickerPos(Max(R1), R3)
                 b == KickerPos(Min(R1), R3)
             IN  1610 + (12 - One(R3)) * 66
                      + (Binom(12, 2) - Binom(12 - a, 2)) + (b - a - 1)
        ELSE IF Cardinality(R2) = 2 /\ R1 # {}
        THEN LET a == 12 - Max(R2)
                 b == 12 - Min(R2)
             IN  2468 + ((Binom(13, 2) - Binom(13 - a, 2)) + (b - a - 1)) * 11
                      + KickerPos(One(R1), R2)
        ELSE IF Cardinality(R2) = 1 /\ Cardinality(R1) = 3
        THEN LET hi == Max(R1)
                 lo == Min(R1)
                 a == KickerPos(hi, R2)
                 b == KickerPos(One(R1 \ {hi, lo}), R2)
                 c == KickerPos(lo, R2)
             IN  3326 + (12 - One(R2)) * 220
                      + (Binom(12, 3) - Binom(12 - a, 3))
                      + (Binom(11 - a, 2) - Binom(12 - b, 2)) + (c - b - 1)
        ELSE IF Cardinality(R1) = 5
        THEN IF IsStraight(R1) THEN 1599 + StraightIndex(R1)
             ELSE 6186 + PatternIndex(R1)
        ELSE Raise

\* Evaluator._five
Five(cards) ==
    IF \A i \in 2..5 : cards[i][2] = cards[1][2]
    THEN FlushLookup({cards[i][1] : i \in 1..5})
    ELSE UnsuitedLookup([i \in 1..5 |-> cards[i][1]])

\* itertools.combinations(all_cards, 5) for 7 cards, as positions
Combos7 ==
    {
      <<1, 2, 3, 4, 5>>, <<1, 2, 3, 4, 6>>, <<1, 2, 3, 4, 7>>,
      <<1, 2, 3, 5, 6>>, <<1, 2, 3, 5, 7>>, <<1, 2, 3, 6, 7>>,
      <<1, 2, 4, 5, 6>>, <<1, 2, 4, 5, 7>>, <<1, 2, 4, 6, 7>>,
      <<1, 2, 5, 6, 7>>, <<1, 3, 4, 5, 6>>, <<1, 3, 4, 5, 7>>,
      <<1, 3, 4, 6, 7>>, <<1, 3, 5, 6, 7>>, <<1, 4, 5, 6, 7>>,
      <<2, 3, 4, 5, 6>>, <<2, 3, 4, 5, 7>>, <<2, 3, 4, 6, 7>>,
      <<2, 3, 5, 6, 7>>, <<2, 4, 5, 6, 7>>, <<3, 4, 5, 6, 7>> }

\* itertools.combinations(all_cards, 5) for 6 cards, as positions
Combos6 == {c \in Combos7 : c[5] <= 6}

\* Evaluator._six / Evaluator._seven: the minimum of _five over every
\* 5-card combination; a lookup that raises ends the call
BestOf(cards, combos) ==
    LET scores == {Five([i \in 1..5 |-> cards[c[i]]]) : c \in combos}
    IN  IF Raise \in scores THEN Raise
        ELSE CHOOSE m \in scores : \A x \in scores : m <= x

\* Evaluator.evaluate(cards, board): hand_size_map has the keys 5, 6, 7
Evaluate(cards, board) ==
    LET all_cards == cards \o board
    IN  IF Len(all_cards) = 5 THEN Five(all_cards)
        ELSE IF Len(all_cards) = 6 THEN BestOf(all_cards, Combos6)
        ELSE IF Len(all_cards) = 7 THEN BestOf(all_cards, Combos7)
        ELSE Raise

(***************************************************************************)
(* get_hand_label                                                          *)
(***************************************************************************)
get_hand_label(score) ==
    IF score <= 10 THEN "Royal Flush"
    ELSE IF score <= 166 THEN "Straight Flush"
    ELSE IF score <= 322 THEN "Four of a Kind"
    ELSE IF score <= 1599 THEN "Full House"
    ELSE IF score <= 1609 THEN "Flush"
    ELSE IF score <= 1620 THEN "Straight"
    ELSE IF score <= 2467 THEN "Three of a Kind"
    ELSE IF score <= 3325 THEN "Two Pair"
    ELSE IF score <= 6185 THEN "Pair"
    ELSE "High Card"


(***************************************************************************)
(* treys.Deck                                                              *)
(***************************************************************************)
\* Deck.GetFullDeck(): the 52 cards
FullDeck == {<<r, s>> : r \in Ranks, s \in Suits}

\* Deck() shuffles the full deck; the deck is kept as the set of its cards and
\* the shuffle shows as the choice of the cards a draw returns.  The shuffles
\* explored are those that put cards of the head of DeckOrder on top.
DeckOrder ==
    [i \in 1..52 |-> <<12 - ((i - 1) \div 4), <<8, 4, 2, 1>>[((i - 1) % 4) + 1]>>]

\* the first n cards of DeckOrder that are still in the deck
Top(cards, n) ==
    LET left == SelectSeq(DeckOrder, LAMBDA c : c \in cards)
    IN  SubSeq(left, 1, IF n < Len(left) THEN n ELSE Len(left))

ToSet(seq) == {seq[i] : i \in 1..Len(seq)}

\* Deck.draw(n): every list of n cards the explored shuffles can put on top
\* (a list, also for n = 1, as treys 0.1.8 returns it).  A choice of n cards
\* is listed once, in DeckOrder order: Evaluate does not depend on the order
\* of the cards it is given.
DrawChoices(cards, n) ==
    LET top == Top(cards, n + ShuffleSlack)
    IN  {SelectSeq(top, LAMBDA c : c \in S) :
            S \in {T \in SUBSET ToSet(top) : Cardinality(T) = n}}

(***************************************************************************)
(* calculate_equity                                                        *)
(***************************************************************************)
VARIABLES
    hero_hand,          \* argument: the two hero tokens
    board_strs,         \* argument: the board tokens
    sims,               \* argument: the number of trials
    pc,                 \* position in calculate_equity
    hero_cards,
    board_cards,
    current_strength,
    wins,
    ties,
    done,               \* iterations of the trial loop completed
    deck,               \* deck.cards of the current trial
    opp_hand,
    full_board,
    h_score,
    opp_score,
    result              \* how the call ended

vars == <<hero_hand, board_strs, sims, pc, hero_cards, board_cards,
          current_strength, wins, ties, done, deck, opp_hand, full_board,
          h_score, opp_score, result>>

args == <<hero_hand, board_strs, sims>>
trial_locals == <<deck, opp_hand, full_board, h_score, opp_score>>

\* the call is running
Running == [kind |-> "running", equity |-> <<0, 1>>, label |-> ""]
\* return equity, label: the equity is the fraction <<numerator, denominator>>
Return(equity, label) == [kind |-> "return", equity |-> equity, label |-> label]
\* an exception leaves calculate_equity
Raised(exc) == [kind |-> exc, equity |-> <<0, 1>>, label |-> ""]

\* the card tokens the call is tried on
Tok2(a, b) == <<a, b>>
Inputs ==
    { \* lower and upper case; a full house of aces over kings on the flop
      [hero |-> <<Tok2("a", "h"), Tok2("A", "D")>>,
       board |-> <<Tok2("A", "c"), Tok2("K", "h"), Tok2("K", "d")>>],
      \* four aces on the flop
      [hero |-> <<Tok2("A", "h"), Tok2("A", "d")>>,
       board |-> <<Tok2("A", "c"), Tok2("A", "s"), Tok2("K", "d")>>],
      \* a royal flush on a complete board, "10s" for the ten
      [hero |-> <<Tok2("2", "c"), Tok2("3", "d")>>,
       board |-> << <<"1", "0", "s">>, Tok2("J", "s"), Tok2("Q", "s"),
                    Tok2("K", "s"), Tok2("A", "s")>>],
      \* aces full of kings on a complete board
      [hero |-> <<Tok2("A", "h"), Tok2("K", "d")>>,
       board |-> <<Tok2("A", "s"), Tok2("A", "c"), Tok2("K", "c"),
                   Tok2("7", "h"), Tok2("7", "d")>>],
      \* pre-flop
      [hero |-> <<Tok2("Q", "h"), Tok2("J", "d")>>, board |-> <<>>],
      \* one and two board cards
      [hero |-> <<Tok2("A", "h"), Tok2("K", "d")>>,
       board |-> <<Tok2("Q", "c")>>],
      [hero |-> <<Tok2("A", "h"), <<" ", "k", "d", " ">>>>,
       board |-> <<Tok2("Q", "c"), Tok2("J", "d")>>],
      \* the turn: one card missing
      [hero |-> <<Tok2("K", "h"), Tok2("Q", "d")>>,
       board |-> <<Tok2("Q", "c"), Tok2("J", "d"), Tok2("2", "s"),
                   Tok2("7", "h")>>],
      \* a hero card repeated on the board
      [hero |-> <<Tok2("A", "h"), Tok2("K", "d")>>,
       board |-> <<Tok2("A", "h"), Tok2("2", "c"), Tok2("3", "d")>>],
      \* the same hero card twice, all hearts
      [hero |-> <<Tok2("A", "h"), Tok2("A", "h")>>,
       board |-> <<Tok2("K", "h"), Tok2("Q", "h"), Tok2("J", "h")>>],
      \* six board cards
      [hero |-> <<Tok2("A", "h"), Tok2("K", "d")>>,
       board |-> <<Tok2("Q", "c"), Tok2("J", "d"), Tok2("2", "s"),
                   Tok2("7", "h"), Tok2("9", "c"), Tok2("4", "d")>>],
      \* an empty hero token
      [hero |-> <<<<>>, Tok2("A", "d")>>, board |-> <<>>],
      [hero |-> <<Tok2("A", "d"), <<" ">>>>, board |-> <<Tok2("Q", "c")>>],
      \* unknown rank, unknown suit, one character
      [hero |-> <<Tok2("X", "h"), Tok2("A", "d")>>, board |-> <<>>],
      [hero |-> <<Tok2("A", "d"), <<"A", "1", "0">>>>, board |-> <<>>],
      [hero |-> <<<<"A">>, Tok2("K", "d")>>, board |-> <<>>],
      [hero |-> <<Tok2("A", "h"), Tok2("K", "d")>>,
       board |-> <<Tok2("Q", "c"), Tok2("J", "x"), Tok2("2", "s")>>],
      \* a hero token with trailing characters, two cards run together on
      \* the board
      [hero |-> <<<<"A", "h", "x">>, Tok2("K", "d")>>,
       board |-> <<Tok2("Q", "c"), Tok2("J", "d"), Tok2("2", "s"),
                   Tok2("7", "h"), Tok2("9", "c")>>],
      [hero |-> <<Tok2("K", "h"), Tok2("K", "d")>>,
       board |-> <<<<"A", "c", "K", "s">>, Tok2("Q", "d"), Tok2("2", "s"),
                   Tok2("7", "h")>>] }

Init ==
    /\ \E in \in Inputs : hero_hand = in.hero /\ board_strs = in.board
    /\ sims \in 0..MaxSims
    /\ pc = "validate"
    /\ hero_cards = <<>>
    /\ board_cards = <<>>
    /\ current_strength = ""
    /\ wins = 0
    /\ ties = 0
    /\ done = 0
    /\ deck = {}
    /\ opp_hand = <<>>
    /\ full_board = <<>>
    /\ h_score = 0
    /\ opp_score = 0
    /\ result = Running

\* [Card.new(clean_card_input(c)) for c in board_strs if c]
ParseBoard(strs) ==
    LET given == SelectSeq(strs, LAMBDA c : c # <<>>)
    IN  [i \in 1..Len(given) |-> CardNew(clean_card_input(given[i]))]

\* lines 55-65: the validation block
Validate ==
    /\ pc = "validate"
    /\ LET c1 == clean_card_input(hero_hand[1])
           c2 == clean_card_input(hero_hand[2])
           hc == <<CardNew(c1), CardNew(c2)>>
           bc == ParseBoard(board_strs)
       IN  IF c1 = <<>> \/ c2 = <<>>
           THEN /\ result' = Return(<<0, 1>>, "Waiting for cards...")
                /\ pc' = "done"
                /\ UNCHANGED <<hero_cards, board_cards>>
           ELSE IF NoCard \in ToSet(hc) \/ NoCard \in ToSet(bc)
           THEN /\ result' = Return(<<0, 1>>, "Invalid Cards")
                /\ pc' = "done"
                /\ UNCHANGED <<hero_cards, board_cards>>
           ELSE /\ hero_cards' = hc
                /\ board_cards' = bc
                /\ pc' = "label"
                /\ UNCHANGED result
    /\ UNCHANGED <<args, current_strength, wins, ties, done, trial_locals>>

\* the label threshold misses the flop: > 5 for >= 5
EnoughCards_Strict(hc, bc) == Len(hc \o bc) > 5

\* line 68: len(hero_cards + board_cards) >= 5
EnoughCards(hc, bc) == Len(hc \o bc) >= 5

\* board_cards[:5]
FirstFive(bc) == SubSeq(bc, 1, IF Len(bc) < 5 THEN Len(bc) ELSE 5)

\* lines 67-69: the current-hand label
Label ==
    /\ pc = "label"
    /\ IF EnoughCards(hero_cards, board_cards)
       THEN \E score \in {Evaluate(hero_cards, FirstFive(board_cards))} :
                IF score = Raise
                THEN /\ result' = Raised("KeyError")
                     /\ pc' = "done"
                     /\ UNCHANGED current_strength
                ELSE /\ current_strength' = get_hand_label(score)
                     /\ pc' = "loop"
                     /\ UNCHANGED result
       ELSE /\ current_strength' = "N/A"
            /\ pc' = "loop"
            /\ UNCHANGED result
    /\ UNCHANGED <<args, hero_cards, board_cards, wins, ties, done, trial_locals>>

\* only the hero cards are removed from the deck
RemoveKnown_HeroOnly(cards, known) == cards \ ToSet(SubSeq(known, 1, 2))

\* lines 74-75: for c in known: if c in deck.cards: deck.cards.remove(c)
RECURSIVE RemoveKnown(_, _)
RemoveKnown(cards, known) ==
    IF known = <<>> THEN cards
    ELSE RemoveKnown(IF Head(known) \in cards THEN cards \ {Head(known)} ELSE cards,
                     Tail(known))

\* lines 71-75: the next iteration starts with a new deck less the known cards
NewDeck ==
    /\ pc = "loop"
    /\ done < sims
    /\ deck' = RemoveKnown(FullDeck, hero_cards \o board_cards)
    /\ pc' = "deck"
    /\ UNCHANGED <<args, hero_cards, board_cards, current_strength, wins, ties,
                   done, opp_hand, full_board, h_score, opp_score, result>>

\* one board card too few is drawn
CardsToDraw_OffByOne(bc) == 4 - Len(bc)

\* line 78
CardsToDraw(bc) == 5 - Len(bc)

\* lines 77-83: the opponent's hand and the rest of the board
Draw ==
    /\ pc = "deck"
    /\ \E opp \in DrawChoices(deck, 2) :
          LET rest == deck \ ToSet(opp)
              cards_to_draw == CardsToDraw(board_cards)
          IN  /\ opp_hand' = opp
              /\ IF cards_to_draw > 0
                 THEN \E drawn \in DrawChoices(rest, cards_to_draw) :
                         /\ full_board' = board_cards \o drawn
                         /\ deck' = rest \ ToSet(drawn)
                 ELSE /\ full_board' = board_cards
                      /\ deck' = rest
    /\ pc' = "dealt"
    /\ UNCHANGED <<args, hero_cards, board_cards, current_strength, wins, ties,
                   done, h_score, opp_score, result>>

\* lines 85-86: both hands are scored over the full board
Score ==
    /\ pc = "dealt"
    /\ \E h \in {Evaluate(hero_cards, full_board)} :
       \E o \in {Evaluate(opp_hand, full_board)} :
           IF h = Raise \/ o = Raise
           THEN /\ result' = Raised("KeyError")
                /\ pc' = "done"
                /\ UNCHANGED <<h_score, opp_score>>
           ELSE /\ h_score' = h
                /\ opp_score' = o
                /\ pc' = "scored"
                /\ UNCHANGED result
    /\ UNCHANGED <<args, hero_cards, board_cards, current_strength, wins, ties,
                   done, deck, opp_hand, full_board>>

\* line 88
WinInc(h, o) == IF h < o THEN 1 ELSE 0

\* if for elif with <=: a win is counted as a tie too
TieInc_NotElif(h, o) == IF h <= o THEN 1 ELSE 0

\* line 89
TieInc(h, o) == IF h < o THEN 0 ELSE IF h = o THEN 1 ELSE 0

\* lines 88-89, and back to the head of the loop.  The names bound in the
\* iteration are bound again before the next iteration reads them; they are
\* reset here.
Tally ==
    /\ pc = "scored"
    /\ wins' = wins + WinInc(h_score, opp_score)
    /\ ties' = ties + TieInc(h_score, opp_score)
    /\ done' = done + 1
    /\ deck' = {}
    /\ opp_hand' = <<>>
    /\ full_board' = <<>>
    /\ h_score' = 0
    /\ opp_score' = 0
    /\ pc' = "loop"
    /\ UNCHANGED <<args, hero_cards, board_cards, current_strength, result>>

\* a tie is credited as a whole win
Equity_FullTies(w, t, n) == <<(2 * w + 2 * t) * 100, 2 * n>>

\* line 91: (wins + (ties * 0.5)) / sims * 100 as a fraction
Equity(w, t, n) == <<(2 * w + t) * 100, 2 * n>>

\* line 91; the division raises ZeroDivisionError when sims is 0
Finish ==
    /\ pc = "loop"
    /\ done = sims
    /\ result' = IF sims = 0 THEN Raised("ZeroDivisionError")
                  ELSE Return(Equity(wins, ties, sims), current_strength)
    /\ pc' = "done"
    /\ UNCHANGED <<args, hero_cards, board_cards, current_strength, wins, ties,
                   done, trial_locals>>

Next == Validate \/ Label \/ NewDeck \/ Draw \/ Score \/ Tally \/ Finish

Spec == Init /\ [][Next]_vars

(***************************************************************************)
(* Vocabulary of the properties                                            *)
(***************************************************************************)
\* the cards the caller gave: hero_cards + board_cards
Known == hero_cards \o board_cards

\* some card occurs twice in the sequence
HasDuplicate(seq) == \E i, j \in 1..Len(seq) : i < j /\ seq[i] = seq[j]

\* calculate_equity is inside an iteration of the trial loop
InTrial == pc \in {"deck", "dealt", "scored"}

\* calculate_equity got past the validation block
Accepted == hero_cards # <<>>

\* the call returned the equity computed by the trial loop
Computed == pc = "done" /\ result.kind = "return" /\ Accepted

\* the call returned one of the two sentinels of the validation block
Sentinel ==
    /\ pc = "done"
    /\ result.kind = "return"
    /\ result.equity = <<0, 1>>
    /\ result.label \in {"Invalid Cards", "Waiting for cards..."}
    /\ done = 0

\* the token is a card identifier of the documented format: rank character
\* then suit character, in either case, "10" allowed for the ten, spaces
\* ignored
WellFormed(tok) ==
    LET t == ReplaceTen(RemoveSpaces(tok))
    IN  /\ Len(t) = 2
        /\ \E r \in 1..13 : STR_RANKS[r] = Upper(t[1])
        /\ \E k \in 1..4 : SuitChars[k] = Lower(t[2])

\* the poker category of 5 to 7 distinct cards, from the rules of poker
PokerCategory(cards) ==
    LET C == ToSet(cards)
        Of(r) == {c \in C : c[1] = r}
        In(s) == {c[1] : c \in {d \in C : d[2] = s}}
        All == {c[1] : c \in C}
        N(k) == {r \in Ranks : Cardinality(Of(r)) >= k}
    IN  IF \E s \in Suits : Straights[1] \subseteq In(s) THEN "Royal Flush"
        ELSE IF \E s \in Suits : \E i \in 1..10 : Straights[i] \subseteq In(s)
        THEN "Straight Flush"
        ELSE IF N(4) # {} THEN "Four of a Kind"
        ELSE IF \E r \in N(3) : N(2) \ {r} # {} THEN "Full House"
        ELSE IF \E s \in Suits : Cardinality({c \in C : c[2] = s}) >= 5
        THEN "Flush"
        ELSE IF \E i \in 1..10 : Straights[i] \subseteq All THEN "Straight"
        ELSE IF N(3) # {} THEN "Three of a Kind"
        ELSE IF Cardinality(N(2)) >= 2 THEN "Two Pair"
        ELSE IF N(2) # {} THEN "Pair"
        ELSE "High Card"

(***************************************************************************)
(* Properties                                                              *)
(***************************************************************************)
\* C1: when a card occurs twice among the hero and known board cards, the
\* call ends in an error before any trial is tallied and never returns an
\* equity computed from the duplicated input.
C1_DuplicateRejected ==
    HasDuplicate(Known) => (done = 0 /\ ~Computed)

\* C2: in every trial the 2 hero cards, the 2 opponent cards and the cards of
\* the completed board are 9 pairwise distinct cards, none of them left in
\* the trial deck.
C2_NoCardDealtTwice ==
    pc = "dealt" =>
        LET dealt == hero_cards \o opp_hand \o full_board
        IN  /\ Len(dealt) = 9
            /\ ~HasDuplicate(dealt)
            /\ ToSet(dealt) \cap deck = {}

\* C3: the current-hand label of 5 to 7 distinct known cards is their poker
\* category: four of a kind is labeled "Four of a Kind", and hero Ah Ad on
\* the board Ac Kh Kd is labeled "Full House".
C3_LabelIsCategory ==
    (pc = "loop" /\ done = 0 /\ current_strength # "N/A"
        /\ ~HasDuplicate(Known) /\ Len(board_cards) <= 5)
    => current_strength = PokerCategory(Known)

\* C4: when a hero token or a non-empty board token is not a card identifier
\* of the documented format, the call returns the invalid-input sentinel
\* with no trial run: no malformed token is accepted as a card.
C4_MalformedRejected ==
    (/\ pc # "validate"
     /\ \/ \E i \in 1..2 : ~WellFormed(hero_hand[i])
        \/ \E i \in 1..Len(board_strs) :
              board_strs[i] # <<>> /\ ~WellFormed(board_strs[i]))
    => Sentinel

\* C5: with more than 5 known board cards the call fails before any trial
\* runs and returns no equity.
C5_OverfullRejected ==
    Len(board_cards) > 5 => (~InTrial /\ done = 0 /\ ~Computed)

\* the label of hero's hand over the known board only
KnownBoardLabel ==
    IF Len(hero_cards) + Len(board_cards) < 5 THEN "N/A"
    ELSE get_hand_label(Evaluate(hero_cards, FirstFive(board_cards)))

\* C6: once computed, the current-hand label is "N/A" exactly when hero and
\* known board total fewer than 5 cards, and otherwise the label of hero's
\* hand over the known board only; it stays so through every trial and is the
\* label returned.
C6_LabelFromKnownBoard ==
    /\ (pc = "loop" \/ InTrial \/ Computed) =>
          /\ current_strength = KnownBoardLabel
          /\ current_strength = "N/A" <=> Len(hero_cards) + Len(board_cards) < 5
    /\ Computed => result.label = KnownBoardLabel

\* a label of 5 or more known cards has gone through a trial whose board was
\* completed by drawn cards
C6_Witness ==
    /\ pc = "scored"
    /\ done >= 1
    /\ current_strength \notin {"N/A", ""}
    /\ Len(full_board) > Len(board_cards)

\* C7: the call returns after exactly sims trials with
\* (wins + ties / 2) / sims * 100; a trial adds one to wins when hero's score
\* is below the opponent's, one to ties when the scores are equal, and never
\* to both.
C7_EquityFormula ==
    /\ [](Computed =>
            /\ done = sims
            /\ result.equity[1] = 100 * (2 * wins + ties)
            /\ result.equity[2] = 2 * sims)
    /\ [][pc = "scored" =>
            /\ wins' - wins = (IF h_score < opp_score THEN 1 ELSE 0)
            /\ ties' - ties = (IF h_score = opp_score THEN 1 ELSE 0)
            /\ (wins' - wins) + (ties' - ties) <= 1
            /\ done' = done + 1]_vars

\* a call of two trials returned with one win and one tie
C7_Witness == Computed /\ sims = 2 /\ wins = 1 /\ ties = 1

\* C8: wins + ties never exceeds the number of trials completed, a computed
\* equity lies in [0, 100], and every return of the validation block carries
\* equity 0.
C8_EquityInRange ==
    /\ wins >= 0 /\ ties >= 0
    /\ wins + ties <= done
    /\ done <= sims
    /\ (pc = "done" /\ result.kind = "return") =>
          /\ result.equity[2] > 0
          /\ 0 <= result.equity[1]
          /\ result.equity[1] <= 100 * result.equity[2]
    /\ (pc = "done" /\ result.kind = "return" /\ ~Accepted) =>
          result.equity[1] = 0

\* a call of two trials returned 100 percent
C8_Witness ==
    Computed /\ sims = 2 /\ result.equity[1] = 100 * result.equity[2]

\* C9: with a known board of 0 to 5 cards a trial draws exactly
\* 5 - |known board| board cards: the board scored has exactly 5 cards and the
\* known board is its prefix.
C9_BoardCompleted ==
    (pc \in {"dealt", "scored"} /\ Len(board_cards) <= 5) =>
        /\ Len(full_board) = 5
        /\ SubSeq(full_board, 1, Len(board_cards)) = board_cards
        /\ Cardinality(deck) =
              52 - Cardinality(ToSet(Known)) - 2 - (5 - Len(board_cards))

\* a trial on a known board of 4 cards has drawn the one missing card
C9_Witness ==
    pc = "dealt" /\ Len(board_cards) = 4 /\ Len(full_board) = 5

\* C10: at the start of dealing in every trial the deck is the 52 cards less
\* the known cards, whatever earlier trials drew, and no step of a trial
\* changes the hero and board inputs.
C10_FreshDeck ==
    /\ [](pc = "deck" =>
            /\ deck = FullDeck \ ToSet(Known)
            /\ Cardinality(deck) = 52 - Cardinality(ToSet(Known)))
    /\ [][(pc = "loop" \/ InTrial) =>
            UNCHANGED <<hero_hand, board_strs, hero_cards, board_cards>>]_vars

\* the deck of a second trial, after a first trial drew from its own
C10_Witness == pc = "deck" /\ done = 1 /\ Len(board_cards) = 3

====
